---- MODULE Spec2Model ----
(***************************************************************************)
(* Model of the MikroTik ping exporter (src/main.py): the SSH Session,     *)
(* the Session pool built on queue.Queue, the probe driver ping_target    *)
(* and the output parser _parse_ping_output.                              *)
(***************************************************************************)
EXTENDS Integers, Sequences, FiniteSets, TLC

(* ------------------------------ bounds -------------------------------- *)
\* number of probe requests (handler threads of the ThreadingHTTPServer)
NumInvocations == 2
\* largest pool capacity (--sessions) the model constructs the pool with
MaxConnections == 1
\* largest elapsed wall time of one probe, in whole seconds
MaxDuration == 1
\* largest number of lines of router output fed to the parser
MaxLines == 2
\* largest --retries given to the stress client
MaxRetries == 2

Invocations == 1..NumInvocations
Durations == 0..MaxDuration

VARIABLES
  pool,         \* the MikroTikSSHConnectionPool's fields (but for _pool)
  idle,         \* pool._pool: the queue.Queue of idle Sessions (ids), FIFO
  sessions,     \* every MikroTikSSHConnection constructed so far, by id
  pc,           \* position of each ping_target invocation
  conn,         \* local variable conn of connection(), 0 when unbound
  err,          \* exception in flight in the with-block of ping_target
  output,       \* local variable output of ping_target
  result,       \* value returned by ping_target
  replaced,     \* ids of Sessions connection() observed inactive and replaced
  lastConnect,  \* record of the latest MikroTikSSHConnection.connect() call
  p_output,     \* parser input under test
  p_result,     \* parser result under test
  p_burst,      \* burst-mode parser result under test
  s_pc,         \* position of the probe_once coroutine of stress.py
  s_retries,    \* its parameter retries
  s_attempt,    \* its local variable attempt
  s_elapsed,    \* its local variable elapsed
  s_err,        \* its local variable err
  s_ret,        \* the value it returned
  s_gets,       \* number of session.get calls it has made
  s_raised      \* number of its attempts that raised

vars == <<pool, idle, sessions, pc, conn, err, output, result, replaced,
          lastConnect, p_output, p_result, p_burst, s_pc, s_retries,
          s_attempt, s_elapsed, s_err, s_ret, s_gets, s_raised>>
poolVars == <<pool, idle, sessions, pc, conn, err, output, result, replaced,
              lastConnect>>
parseVars == <<p_output, p_result, p_burst>>
stressVars == <<s_pc, s_retries, s_attempt, s_elapsed, s_err, s_ret, s_gets,
                s_raised>>

(* ------------------------------ Session ------------------------------- *)
\* ssh is "None" (no handle), "live" (handle whose transport is active) or
\* "dead" (handle whose transport is no longer active).
MikroTikSSHConnection(host, alt_host, user, password, port) ==
  [host |-> host, alt_host |-> alt_host, user |-> user,
   password |-> password, port |-> port, ssh |-> "None"]

is_active(s) == s.ssh = "live"

\* connect() without line 40: the handle stays after the alternate host failed
connectKeepsHandle(s, primaryOK, altOK) ==
  IF primaryOK
    THEN [ssh |-> "live", tried |-> <<s.host>>, ok |-> <<TRUE>>,
          raised |-> FALSE]
    ELSE IF s.alt_host # ""
      THEN [ssh |-> IF altOK THEN "live" ELSE "dead",
            tried |-> <<s.host, s.alt_host>>, ok |-> <<FALSE, altOK>>,
            raised |-> FALSE]
      ELSE [ssh |-> "None", tried |-> <<s.host>>, ok |-> <<FALSE>>,
            raised |-> FALSE]

\* connect(): primaryOK / altOK say whether the transport's connect to the
\* primary / alternate host succeeds.  tried lists the hosts attempted.
connect(s, primaryOK, altOK) ==
  IF primaryOK
    THEN [ssh |-> "live", tried |-> <<s.host>>, ok |-> <<TRUE>>,
          raised |-> FALSE]
    ELSE IF s.alt_host # ""
      THEN [ssh |-> IF altOK THEN "live" ELSE "None",
            tried |-> <<s.host, s.alt_host>>, ok |-> <<FALSE, altOK>>,
            raised |-> FALSE]
      ELSE [ssh |-> "None", tried |-> <<s.host>>, ok |-> <<FALSE>>,
            raised |-> FALSE]

(* ------------------------------- Pool --------------------------------- *)
_create_connection(p) ==
  MikroTikSSHConnection(p.host, p.alt_host, p.user, p.password, p.ssh_port)

\* Object identity: the k-th Session constructed by invocation i (k is 1 or 2:
\* connection() constructs at most one Session at line 72 and one at line 77).
\* SharedId is a pool that hands every caller the same cached object.
SharedId(i, k) == k
NewId(i, k) == 2 * (i - 1) + k

\* queue.Queue.get_nowait(): the head leaves the queue
QueueGet(q) == Tail(q)

\* queue.Queue.put() blocks while the queue holds maxsize items
PutEnabled(q, maxsize) == Len(q) < maxsize

(* --------------------------- router output ---------------------------- *)
\* The router's text is modelled as lines of whitespace-separated tokens.
\* k is the token's shape, n its number, d the first fractional digit of a
\* time= value.  Shapes: "int" \d+; "ip" [\d.]+ with dots; "ms" \d+ms;
\* "time=" time=<n>.<d>ms; "ttl=" ttl=<n>; "timeout", "no route to host",
\* "ttl-exceeded": text holding that literal; "sent=", "received=",
\* "packet-loss=": the fields of the summary footer; "word": any other text.
Tok(k, n, d) == [k |-> k, n |-> n, d |-> d]
W(k) == Tok(k, 0, 0)
I(n) == Tok("int", n, 0)

Lines ==
  { <<I(0), W("ip"), I(56), I(64), Tok("ms", 12, 0)>>,
    <<I(0), W("ip"), I(56), I(64), Tok("ms", 0, 0)>>,
    <<I(0), W("ip"), I(84), I(250), Tok("ms", 5, 0), W("ttl-exceeded")>>,
    <<I(0), W("ip"), W("timeout")>>,
    <<I(0), W("no route to host")>>,
    <<W("word"), Tok("time=", 12, 5), Tok("ttl=", 57, 0)>>,
    <<Tok("time=", 3, 0)>>,
    <<Tok("ttl=", 33, 0)>>,
    <<W("word"), W("word")>>,
    <<I(1), W("ip"), I(60)>>,
    <<I(128), Tok("ms", 7, 0)>>,
    <<W("word"), I(0), W("ip"), I(56), I(64), Tok("ms", 9, 0)>>,
    <<Tok("sent=", 5, 0), Tok("received=", 3, 0),
      Tok("packet-loss=", 40, 0)>> }

RECURSIVE SeqsUpTo(_, _)
SeqsUpTo(S, n) ==
  IF n = 0 THEN {<<>>}
  ELSE LET shorter == SeqsUpTo(S, n - 1)
       IN shorter \cup {Append(q, x) : q \in shorter, x \in S}

\* the texts fed to the parser: up to MaxLines lines
Outputs == SeqsUpTo(Lines, MaxLines)

\* the text as one token stream; bol marks the first token of a line
MarkLine(line) ==
  [j \in 1..Len(line) |-> [k |-> line[j].k, n |-> line[j].n, d |-> line[j].d,
                           bol |-> (j = 1)]]
RECURSIVE Tokens(_)
Tokens(out) ==
  IF out = <<>> THEN <<>> ELSE MarkLine(Head(out)) \o Tokens(Tail(out))

\* "<literal>" in output
Contains(out, literal) ==
  \E j \in 1..Len(Tokens(out)) : Tokens(out)[j].k = literal

\* index of the first token with shape k, 0 when re.search finds none
FirstTok(out, k) ==
  LET t == Tokens(out)
      hits == {j \in 1..Len(t) : t[j].k = k}
  IN IF hits = {} THEN 0 ELSE CHOOSE j \in hits : \A h \in hits : j <= h

\* re.search(r'^\s*\d+\s+[\d.]+\s+(\d+)\s+(\d+)\s+(\d+)ms', output,
\* re.MULTILINE): index of the first token of the leftmost match, 0 if none.
\* \s+ also matches a newline, so only the first token is tied to a line start.
MatchV6At(t, j) ==
  /\ j + 4 <= Len(t)
  /\ t[j].bol /\ t[j].k = "int"
  /\ t[j + 1].k \in {"int", "ip"}
  /\ t[j + 2].k = "int"
  /\ t[j + 3].k = "int"
  /\ t[j + 4].k = "ms"
match_v6(out) ==
  LET t == Tokens(out)
      hits == {j \in 1..Len(t) : MatchV6At(t, j)}
  IN IF hits = {} THEN 0 ELSE CHOOSE j \in hits : \A h \in hits : j <= h

rtt_match_v7(out) == FirstTok(out, "time=")
ttl_match_v7(out) == FirstTok(out, "ttl=")

(* ------------------------------ Prober -------------------------------- *)
\* line 127 without the "ttl-exceeded" test
UseV6Unchecked(out) == match_v6(out) # 0

\* line 127: dialect A (RouterOS v6) is used
UseV6(out) == match_v6(out) # 0 /\ ~Contains(out, "ttl-exceeded")

\* line 143 testing "timeout" only
OverrideTimeoutOnly(out, up) == IF Contains(out, "timeout") THEN 0 ELSE up

\* lines 143-144: the unreachability override
Override(out, up) ==
  IF Contains(out, "timeout") \/ Contains(out, "no route to host")
    THEN 0 ELSE up

\* lines 128-131: the fields of the dialect-A match at token m6
FieldsV6(t, m6) ==
  [size |-> t[m6 + 2].n, ttl |-> t[m6 + 3].n,
   rtt_sec |-> t[m6 + 4].n * 1000, up |-> 1]

\* lines 133-136 without the division by 1000.0 (milliseconds taken as
\* seconds: n.d s = n * 1000000 + d * 100000 us)
FieldsV7Unscaled(t, m7, mt) ==
  [size |-> 56, ttl |-> IF mt # 0 THEN t[mt].n ELSE 0,
   rtt_sec |-> t[m7].n * 1000000 + t[m7].d * 100000, up |-> 1]

\* lines 133-136: the fields of dialect B (RouterOS v7), time= at token m7
\* and ttl= at token mt (0 when absent)
FieldsV7(t, m7, mt) ==
  [size |-> 56, ttl |-> IF mt # 0 THEN t[mt].n ELSE 0,
   rtt_sec |-> t[m7].n * 1000 + t[m7].d * 100, up |-> 1]

\* rtt_sec is kept in microseconds: float(ms) / 1000.0 seconds = ms * 1000 us
_parse_ping_output(out, duration) ==
  LET t == Tokens(out)
      m6 == match_v6(out)
      m7 == rtt_match_v7(out)
      mt == ttl_match_v7(out)
      fields ==
        IF UseV6(out) THEN FieldsV6(t, m6)
        ELSE IF m7 # 0 THEN FieldsV7(t, m7, mt)
        ELSE [size |-> 0, ttl |-> 0, rtt_sec |-> 0, up |-> 0]
  IN [rtt_sec |-> fields.rtt_sec, up |-> Override(out, fields.up),
      ttl |-> fields.ttl, size |-> fields.size, duration |-> duration]

_error_result(duration) ==
  [rtt_sec |-> 0, up |-> 0, ttl |-> 0, size |-> 0, duration |-> duration]

\* connection() replacing every Session it picks, active or not
YieldedAlwaysFresh(c, active, fresh) == fresh

\* connection() without the replacement of line 77
YieldedAsPicked(c, active, fresh) == c

\* lines 75-78 of connection(): the Session that is yielded
Yielded(c, active, fresh) == IF ~active THEN fresh ELSE c

\* router outputs a probe of the pool model can read
PoolOutputs ==
  { << <<I(0), W("ip"), I(56), I(64), Tok("ms", 12, 0)>> >>,
    << <<I(0), W("ip"), W("timeout")>> >> }

NoConnect ==
  [called |-> FALSE, tried |-> <<>>, ok |-> <<>>, ssh |-> "None",
   raised |-> FALSE]

Init ==
  /\ pool \in {[host |-> "primary", alt_host |-> a, user |-> "admin",
                password |-> "secret", ssh_port |-> 22,
                max_connections |-> n] :
                a \in {"", "alternate"}, n \in 1..MaxConnections}
  /\ idle = <<>>
  /\ sessions = [x \in {} |-> 0]
  /\ pc = [i \in Invocations |-> "idle"]
  /\ conn = [i \in Invocations |-> 0]
  /\ err = [i \in Invocations |-> "none"]
  /\ output = [i \in Invocations |-> <<>>]
  /\ result = [i \in Invocations |-> <<>>]
  /\ replaced = {}
  /\ lastConnect = NoConnect
  /\ p_output = <<>>
  /\ p_result = <<>>
  /\ p_burst = <<>>
  /\ s_pc = "init"
  /\ s_retries = 0
  /\ s_attempt = 0
  /\ s_elapsed = 0
  /\ s_err = ""
  /\ s_ret = <<>>
  /\ s_gets = 0
  /\ s_raised = 0

Made(ss, id, s) == [x \in DOMAIN ss \cup {id} |-> IF x = id THEN s ELSE ss[x]]

\* the Session invocation i picks at lines 69-72: the head of the idle queue,
\* or a new one when the queue is empty
Picked(i) == IF idle # <<>> THEN Head(idle) ELSE NewId(i, 1)

\* connection() up to its yield, lines 69-78: wait-free pickup of an idle
\* Session or a new one, liveness check, replacement of an inactive Session
Acquire(i) ==
  /\ pc[i] = "idle"
  /\ LET made == IF idle # <<>> THEN sessions
                 ELSE Made(sessions, NewId(i, 1), _create_connection(pool))
         active == is_active(made[Picked(i)])
         y == Yielded(Picked(i), active, NewId(i, 2))
     IN /\ idle' = IF idle # <<>> THEN QueueGet(idle) ELSE idle
        /\ conn' = [conn EXCEPT ![i] = y]
        /\ sessions' = IF active THEN made
                       ELSE Made(made, NewId(i, 2), _create_connection(pool))
        /\ replaced' = IF active THEN replaced ELSE replaced \cup {Picked(i)}
  /\ pc' = [pc EXCEPT ![i] = "lent"]
  /\ UNCHANGED <<pool, err, output, result, lastConnect, parseVars, stressVars>>

\* ping_target, lines 107-111: exec_command (lines 47-52) and the two reads.
\* primaryOK, altOK, cmdOK, readOK are the transport's outcomes; dropped says
\* that the remote side drops the connection after lines 48-49 and before
\* the test of line 50, which then finds a handle whose transport is dead and
\* issues the command on it (the transport raises).
Exec(i) ==
  /\ pc[i] = "lent"
  /\ \E primaryOK \in BOOLEAN, altOK \in BOOLEAN, cmdOK \in BOOLEAN,
        readOK \in BOOLEAN, dropped \in BOOLEAN, out \in PoolOutputs :
       LET s == sessions[conn[i]]
           c == connect(s, primaryOK, altOK)
           connected == IF is_active(s) THEN s.ssh ELSE c.ssh
           ssh == IF dropped /\ connected = "live" THEN "dead" ELSE connected
       IN /\ sessions' = [sessions EXCEPT ![conn[i]].ssh = ssh]
          /\ lastConnect' =
               IF is_active(s) THEN lastConnect
               ELSE [called |-> TRUE, tried |-> c.tried, ok |-> c.ok,
                     ssh |-> c.ssh, raised |-> c.raised]
          /\ IF ssh = "None"
               THEN /\ err' = [err EXCEPT ![i] = "ConnectionError"]
                    /\ UNCHANGED output
             ELSE IF ssh = "live" /\ cmdOK /\ readOK
               THEN /\ output' = [output EXCEPT ![i] = out]
                    /\ UNCHANGED err
             ELSE /\ err' = [err EXCEPT ![i] = "Other"]
                  /\ UNCHANGED output
  /\ pc' = [pc EXCEPT ![i] = "exiting"]
  /\ UNCHANGED <<pool, idle, conn, result, replaced, parseVars, stressVars>>

\* ping_target retrying after a ConnectionError instead of returning
OutcomeRetry(e) ==
  IF e = "ConnectionError" THEN "idle"
  ELSE IF e = "Other" THEN "raised" ELSE "done"

\* how ping_target is left, lines 112-117: it returns a result, or the
\* exception it does not catch propagates
Outcome(e) == IF e = "Other" THEN "raised" ELSE "done"

\* connection(), line 80, then ping_target, lines 112-117
Release(i) ==
  /\ pc[i] = "exiting"
  /\ PutEnabled(idle, pool.max_connections)
  /\ idle' = Append(idle, conn[i])
  /\ conn' = [conn EXCEPT ![i] = 0]
  /\ err' = [err EXCEPT ![i] = "none"]
  /\ output' = [output EXCEPT ![i] = <<>>]
  /\ pc' = [pc EXCEPT ![i] = Outcome(err[i])]
  /\ \E duration \in Durations :
       IF err[i] = "ConnectionError"
         THEN result' = [result EXCEPT ![i] = <<_error_result(duration)>>]
       ELSE IF err[i] = "Other"
         THEN UNCHANGED result
       ELSE result' = [result EXCEPT ![i] =
                         <<_parse_ping_output(output[i], duration)>>]
  /\ UNCHANGED <<pool, sessions, replaced, lastConnect, parseVars, stressVars>>

\* the remote side drops an established connection
Drop(s) ==
  /\ sessions[s].ssh = "live"
  /\ sessions' = [sessions EXCEPT ![s].ssh = "dead"]
  /\ UNCHANGED <<pool, idle, pc, conn, err, output, result, replaced,
                 lastConnect, parseVars, stressVars>>

Step(i) == Acquire(i) \/ Exec(i) \/ Release(i)

Next ==
  \/ \E i \in Invocations : Acquire(i)
  \/ \E i \in Invocations : Exec(i)
  \/ \E i \in Invocations : Release(i)
  \/ \E s \in DOMAIN sessions : Drop(s)

Spec == Init /\ [][Next]_vars

\* every handler thread that can take a step eventually takes it
FairSpec == Spec /\ \A i \in Invocations : WF_vars(Step(i))

(* --------------------- the parser as a pure function ------------------ *)
Parse ==
  /\ p_result = <<>> /\ p_burst = <<>>
  /\ \E out \in Outputs, duration \in Durations :
    /\ p_output' = out
    /\ p_result' = <<_parse_ping_output(out, duration)>>
    /\ UNCHANGED <<poolVars, p_burst, stressVars>>

ErrorResult ==
  /\ p_result = <<>> /\ p_burst = <<>>
  /\ \E duration \in Durations :
    /\ UNCHANGED p_output
    /\ p_result' = <<_error_result(duration)>>
    /\ UNCHANGED <<poolVars, p_burst, stressVars>>

(* ----------------------- burst-sample parsing ------------------------- *)
\* the reply lines of a burst: every dialect-A match, in text order
ReplyLines(out) ==
  LET t == Tokens(out) IN {j \in 1..Len(t) : MatchV6At(t, j)}

RECURSIVE Ascending(_)
Ascending(S) ==
  IF S = {} THEN <<>>
  ELSE LET m == CHOOSE x \in S : \A y \in S : x <= y
       IN <<m>> \o Ascending(S \ {m})

\* the summary footer is present
HasFooter(out) ==
  /\ FirstTok(out, "sent=") # 0
  /\ FirstTok(out, "received=") # 0
  /\ FirstTok(out, "packet-loss=") # 0

\* loss with a sent count of 0 taken as no loss
LossPercentZero(sent, received) ==
  IF sent = 0 THEN 0 ELSE ((sent - received) * 100) \div sent

\* (sent - received) / sent * 100, a sent count of 0 being 100% loss
LossPercent(sent, received) ==
  IF sent = 0 THEN 100 ELSE ((sent - received) * 100) \div sent

\* burst parser: one rtt sample (microseconds) per reply line, ttl and size
\* of the first reply line, counts and loss from the footer or, without a
\* footer, from the number of reply lines
parse_burst_output(out, duration) ==
  LET t == Tokens(out)
      at == Ascending(ReplyLines(out))
      n == Len(at)
      sent == IF HasFooter(out) THEN t[FirstTok(out, "sent=")].n ELSE n
      received == IF HasFooter(out) THEN t[FirstTok(out, "received=")].n
                  ELSE n
      loss == IF HasFooter(out) THEN t[FirstTok(out, "packet-loss=")].n
              ELSE LossPercent(sent, received)
  IN [rtts |-> [k \in 1..n |-> t[at[k] + 4].n * 1000],
      ttl |-> IF n > 0 THEN t[at[1] + 3].n ELSE 0,
      size |-> IF n > 0 THEN t[at[1] + 2].n ELSE 0,
      sent |-> sent, received |-> received, loss |-> loss,
      up |-> IF received > 0 THEN 1 ELSE 0, duration |-> duration]

ParseBurst ==
  /\ p_result = <<>> /\ p_burst = <<>>
  /\ \E out \in Outputs, duration \in Durations :
    /\ p_output' = out
    /\ p_burst' = <<parse_burst_output(out, duration)>>
    /\ UNCHANGED <<poolVars, p_result, stressVars>>

ParseNext == Parse \/ ErrorResult \/ ParseBurst

ParseSpec == Init /\ [][ParseNext]_vars

(* ------------------- stress.py: probe_once ---------------------------- *)
\* what probe_once returns: the 4-tuple (success, elapsed, status, text), or
\* None when the function ends without a return statement
Tuple4(success, elapsed, status, text) ==
  [none |-> FALSE, success |-> success, elapsed |-> elapsed,
   status |-> status, text |-> text]
None == [none |-> TRUE, success |-> FALSE, elapsed |-> 0, status |-> 0,
         text |-> ""]

\* HTTP statuses the probe endpoint answers with
Statuses == {200, 400, 500}

\* line 43 with an off-by-one loop condition
LoopCondStrict(attempt, retries) == attempt < retries

\* line 43: while attempt <= retries
LoopCond(attempt, retries) == attempt <= retries

\* call of probe_once, lines 40-42
Call ==
  /\ s_pc = "init"
  /\ \E r \in 0..MaxRetries : s_retries' = r
  /\ s_attempt' = 0
  /\ s_pc' = "loop"
  /\ UNCHANGED <<poolVars, parseVars, s_elapsed, s_err, s_ret, s_gets,
                 s_raised>>

\* lines 43-45: the loop test and attempt += 1; when the test fails the
\* function ends without a return statement (it returns None)
Loop ==
  /\ s_pc = "loop"
  /\ IF LoopCond(s_attempt, s_retries)
       THEN /\ s_attempt' = s_attempt + 1
            /\ s_pc' = "get"
            /\ UNCHANGED s_ret
       ELSE /\ s_pc' = "returned"
            /\ s_ret' = <<None>>
            /\ UNCHANGED s_attempt
  /\ UNCHANGED <<poolVars, parseVars, s_retries, s_elapsed, s_err, s_gets,
                 s_raised>>

\* lines 46-51: the GET answered with a response, and the return
Response ==
  /\ s_pc = "get"
  /\ \E status \in Statuses, el \in Durations :
       LET success == 200 <= status /\ status < 400
       IN /\ s_elapsed' = el
          /\ s_ret' = <<Tuple4(success, el, status,
                                IF ~success THEN "text" ELSE "")>>
  /\ s_gets' = s_gets + 1
  /\ s_pc' = "returned"
  /\ UNCHANGED <<poolVars, parseVars, s_retries, s_attempt, s_err, s_raised>>

\* lines 46-57: the GET (or reading its body) raises
Raise ==
  /\ s_pc = "get"
  /\ \E e \in {"timeout", "error"}, el \in Durations :
       /\ s_err' = e
       /\ s_elapsed' = el
  /\ s_gets' = s_gets + 1
  /\ s_raised' = s_raised + 1
  /\ s_pc' = "failed"
  /\ UNCHANGED <<poolVars, parseVars, s_retries, s_attempt, s_ret>>

\* lines 58-61: back off and loop, or return the failure tuple
Backoff ==
  /\ s_pc = "failed"
  /\ IF s_attempt <= s_retries
       THEN /\ s_pc' = "loop"
            /\ UNCHANGED s_ret
       ELSE /\ s_pc' = "returned"
            /\ s_ret' = <<Tuple4(FALSE, s_elapsed, 0, s_err)>>
  /\ UNCHANGED <<poolVars, parseVars, s_retries, s_attempt, s_elapsed, s_err,
                 s_gets, s_raised>>

ProbeNext == Call \/ Loop \/ Response \/ Raise \/ Backoff

ProbeSpec == Init /\ [][ProbeNext]_vars

(* ============================== claims ================================ *)
\* an invocation holds a Session from the yield of connection() until the
\* put at line 80 has completed
Holding(i) == pc[i] \in {"lent", "exiting"}
Lent == {i \in Invocations : Holding(i)}
IdleSet == {idle[j] : j \in 1..Len(idle)}
\* Sessions in existence: lent, waiting to be released, or idle
Existing == Cardinality(Lent) + Len(idle)
Finished(i) == pc[i] \in {"done", "raised"}
\* the put of invocation i is blocked on a full queue
Blocked(i) == pc[i] = "exiting" /\ ~PutEnabled(idle, pool.max_connections)

\* C1: in every reachable state the number of Sessions lent out plus the
\* number of idle Sessions is at most max_connections, and no lent Session is
\* in the idle queue.
C1_LentPlusIdleAtMostN ==
  /\ Cardinality(Lent) + Len(idle) <= pool.max_connections
  /\ \A i \in Lent : conn[i] \notin IdleSet

\* C2: every probe invocation that has started eventually completes (its
\* lease released, ping_target left), whatever its outcome, with no further
\* request arriving.
C2_AllComplete ==
  \A i \in Invocations : (pc[i] = "lent") ~> Finished(i)

C4_NoFailurePropagates ==
  \A i \in Invocations :
    /\ pc[i] # "raised"
    /\ Finished(i) => Len(result[i]) = 1

\* C5: the number of Sessions in existence never exceeds max_connections + 1,
\* and the excess is removed at release: once every invocation has reached
\* its release and no release is left that can proceed, at most
\* max_connections Sessions remain.
C5_AtMostNPlusOne ==
  /\ Existing <= pool.max_connections + 1
  /\ (\A i \in Invocations : Finished(i) \/ Blocked(i))
       => Existing <= pool.max_connections

\* C6: whenever the Session connection() picked (from the idle queue, or just
\* made) is observed inactive, the Session yielded is another, freshly
\* constructed one with the pool's host, alternate host, credentials and
\* port; a replaced Session is never held nor idle afterwards.
C6_NeverYieldsInactive ==
  /\ [][\A i \in Invocations :
          (pc[i] = "idle" /\ pc'[i] = "lent"
             /\ ~is_active(sessions'[Picked(i)]))
          => /\ conn'[i] # Picked(i)
             /\ conn'[i] \notin DOMAIN sessions
             /\ sessions'[conn'[i]] =
                  [host |-> pool.host, alt_host |-> pool.alt_host,
                   user |-> pool.user, password |-> pool.password,
                   port |-> pool.ssh_port, ssh |-> "None"]
             /\ Picked(i) \in replaced']_vars
  /\ [](\A s \in replaced :
          /\ s \notin IdleSet
          /\ \A i \in Invocations : Holding(i) => conn[i] # s)

\* a Session that had been connected was found inactive when picked from the
\* idle queue, and was replaced
C6_Witness ==
  \E s \in replaced : sessions[s].ssh = "dead"

\* C7: every parser result with up = 0 has rtt_sec = 0.
C7_DownImpliesZeroRtt ==
  \A k \in 1..Len(p_result) :
    p_result[k].up = 0 => p_result[k].rtt_sec = 0

\* C8: an output containing 'timeout' or 'no route to host' is parsed to
\* up = 0, whatever dialect pattern also matches.
C8_OverrideForcesDown ==
  (p_result # <<>> /\ (Contains(p_output, "timeout")
                        \/ Contains(p_output, "no route to host")))
    => p_result[1].up = 0

\* a dialect pattern matches (and is used) in an output that also holds
\* 'timeout' or 'no route to host'
C8_Witness ==
  /\ p_result # <<>>
  /\ Contains(p_output, "timeout") \/ Contains(p_output, "no route to host")
  /\ UseV6(p_output) \/ rtt_match_v7(p_output) # 0

\* C9: for an output containing 'ttl-exceeded' the result is never derived
\* from the dialect-A match: with time= present it has rtt from time= and
\* size 56, otherwise up = 0 and rtt, ttl and size are 0.
C9_TtlExceededNotDialectA ==
  (p_result # <<>> /\ Contains(p_output, "ttl-exceeded"))
    => LET t == Tokens(p_output)
           m7 == FirstTok(p_output, "time=")
       IN IF m7 # 0
            THEN /\ p_result[1].rtt_sec = t[m7].n * 1000 + t[m7].d * 100
                 /\ p_result[1].size = 56
            ELSE /\ p_result[1].up = 0
                 /\ p_result[1].rtt_sec = 0
                 /\ p_result[1].ttl = 0
                 /\ p_result[1].size = 0

\* the dialect-A pattern matches in an output that holds 'ttl-exceeded'
C9_Witness ==
  /\ p_result # <<>>
  /\ Contains(p_output, "ttl-exceeded")
  /\ match_v6(p_output) # 0

\* C10: connect() tries the primary host first, the alternate host only
\* after the primary failed and only if one is configured, and no third
\* attempt; ssh is None afterwards exactly when every attempt failed; and it
\* does not raise.
C10_ConnectFailover ==
  lastConnect.called =>
    /\ Len(lastConnect.tried) \in {1, 2}
    /\ Len(lastConnect.ok) = Len(lastConnect.tried)
    /\ lastConnect.tried[1] = pool.host
    /\ Len(lastConnect.tried) = 2 =>
         /\ ~lastConnect.ok[1]
         /\ pool.alt_host # ""
         /\ lastConnect.tried[2] = pool.alt_host
    /\ (lastConnect.ssh = "None") <=>
         (\A k \in 1..Len(lastConnect.ok) : ~lastConnect.ok[k])
    /\ ~lastConnect.raised

\* connect() tried the alternate host after the primary failed, and it
\* failed too
C10_Witness ==
  /\ lastConnect.called
  /\ lastConnect.ok = <<FALSE, FALSE>>

\* the Sessions the pool or a probe invocation can observe
Observable == IdleSet \cup {conn[i] : i \in Lent}

\* C11: every Session the pool or an invocation can observe is either fully
\* connected (handle present, transport alive) or fully disconnected (handle
\* absent), also after a failed connect and after the remote side dropped
\* the connection.
C11_ConnectedOrAbsent ==
  \A s \in Observable : sessions[s].ssh \in {"None", "live"}

\* C12: exec_command on a Session that is not active calls connect() first;
\* when the Session is not active at the test of line 50 it raises
\* ConnectionError and issues no command, so that a command is issued only
\* on an active Session.
C12_CommandOnlyWhenActive ==
  [][\A i \in Invocations :
       (pc[i] = "lent" /\ pc'[i] = "exiting")
       => /\ ~is_active(sessions[conn[i]]) => lastConnect'.called
          /\ ~is_active(sessions'[conn[i]]) => err'[i] = "ConnectionError"]_vars

\* C13: at lease exit the Session put into the idle queue is the one that was
\* yielded; an idle Session that reports active is yielded itself, with no
\* Session constructed; and a command on an active Session makes no connect.
C13_SessionReused ==
  [][\A i \in Invocations :
       /\ (pc[i] = "exiting" /\ pc'[i] # "exiting")
            => idle' = Append(idle, conn[i])
       /\ (pc[i] = "lent" /\ pc'[i] = "exiting") => conn'[i] = conn[i]
       /\ (pc[i] = "idle" /\ pc'[i] = "lent" /\ idle # <<>>
             /\ is_active(sessions[Head(idle)]))
            => /\ conn'[i] = Head(idle)
               /\ DOMAIN sessions' = DOMAIN sessions
       /\ (pc[i] = "lent" /\ pc'[i] = "exiting"
             /\ is_active(sessions[conn[i]]))
            => lastConnect' = lastConnect]_vars

\* an invocation has run its command on a Session that an earlier invocation
\* connected and released
C13_Witness ==
  \E i \in Invocations :
    /\ pc[i] = "exiting" /\ err[i] = "none"
    /\ conn[i] \notin {NewId(i, 1), NewId(i, 2)}

\* the stages of one ping_target invocation
Rank(p) ==
  CASE p = "idle" -> 0 [] p = "lent" -> 1 [] p = "exiting" -> 2 [] OTHER -> 3

\* C16: one invocation acquires one lease and issues the command at most
\* once: it passes each stage (acquire, command, release) once, in order, and
\* once it has returned or raised it takes no further step -- no retry after
\* a transport failure or an unreachable result.
C16_OneAttempt ==
  [][\A i \in Invocations :
       /\ Rank(pc'[i]) \in {Rank(pc[i]), Rank(pc[i]) + 1}
       /\ Finished(i) => (pc'[i] = pc[i] /\ result'[i] = result[i])
       /\ Len(idle') >= Len(idle) - 1]_vars

\* an invocation has returned an unreachable result after a transport
\* failure (no command issued)
C16_Witness ==
  \E i \in Invocations :
    /\ pc[i] = "done" /\ result[i][1].up = 0
    /\ lastConnect.called /\ lastConnect.ssh = "None"

\* C17: whenever an invocation is at the put of line 80, the idle queue holds
\* fewer than max_connections Sessions (the put does not wait).
C17_PutNeverWaits ==
  \A i \in Invocations :
    pc[i] = "exiting" => Len(idle) < pool.max_connections

\* C18: on every exit path of the with-block (normal, ConnectionError, other
\* exception) the Session is handed back to the pool: an invocation that has
\* left the with-block eventually completes its put and holds no Session.
C18_LeaseReleased ==
  \A i \in Invocations :
    (pc[i] = "exiting") ~> (Finished(i) /\ conn[i] = 0)

\* C14: when dialect A does not match, or is rejected for 'ttl-exceeded',
\* and time=<number>ms is present, rtt is the time= value in milliseconds
\* divided by 1000, ttl is the ttl= value or 0, size is 56 and up is 1 unless
\* 'timeout' / 'no route to host' overrides it; when dialect A matches
\* without 'ttl-exceeded' the fields are those of the dialect-A line, also
\* with time= present.
C14_DialectPriority ==
  p_result # <<>> =>
    LET r == p_result[1]
        t == Tokens(p_output)
        a == match_v6(p_output)
        b == FirstTok(p_output, "time=")
        l == FirstTok(p_output, "ttl=")
        exceeded == Contains(p_output, "ttl-exceeded")
        down == Contains(p_output, "timeout")
                  \/ Contains(p_output, "no route to host")
    IN /\ (a # 0 /\ ~exceeded)
            => /\ r.size = t[a + 2].n /\ r.ttl = t[a + 3].n
               /\ r.rtt_sec = t[a + 4].n * 1000
               /\ r.up = IF down THEN 0 ELSE 1
       /\ ((a = 0 \/ exceeded) /\ b # 0)
            => /\ r.rtt_sec = t[b].n * 1000 + t[b].d * 100
               /\ r.ttl = IF l # 0 THEN t[l].n ELSE 0
               /\ r.size = 56
               /\ r.up = IF down THEN 0 ELSE 1

\* a text with time= but no ttl= and no usable dialect-A line was parsed to a
\* reachable result
C14_Witness ==
  /\ p_result # <<>>
  /\ ~UseV6(p_output)
  /\ rtt_match_v7(p_output) # 0 /\ ttl_match_v7(p_output) = 0
  /\ p_result[1].up = 1

C19_ProbeOnceAttempts ==
  /\ s_gets <= s_retries + 1
  /\ s_raised <= s_gets
  /\ s_pc = "returned" =>
       /\ Len(s_ret) = 1
       /\ ~s_ret[1].none
       /\ IF s_ret[1].status # 0
            THEN /\ s_gets = s_raised + 1
                 /\ s_ret[1].success =
                      (200 <= s_ret[1].status /\ s_ret[1].status < 400)
            ELSE /\ s_raised = s_retries + 1
                 /\ s_gets = s_retries + 1
                 /\ ~s_ret[1].success
                 /\ s_ret[1].elapsed = s_elapsed
                 /\ s_ret[1].text = s_err
  /\ s_pc # "returned" => s_gets = s_raised

\* the failure tuple was returned after retries
C19_Witness ==
  /\ s_pc = "returned"
  /\ s_retries >= 1
  /\ s_ret[1].status = 0

====
